---------------------------- MODULE Spec2Model ----------------------------
(***************************************************************************)
(* A model of the Pylon session of core/src/lib.rs: the three optional      *)
(* slots of struct Pylon (handshake, wormhole, transfer_request), its        *)
(* relay_url and config, and the operations new, gen_code, send_file,        *)
(* request_file and destroy.  The magic-wormhole library and the network     *)
(* are the environment: every call into them is a nondeterministic choice    *)
(* over the values its return type allows.                                   *)
(*                                                                           *)
(* An Option<T> is a sequence of length at most one: None is << >> and       *)
(* Some(x) is << x >>.                                                       *)
(***************************************************************************)
EXTENDS Naturals, Sequences, FiniteSets, TLC

VARIABLES
    status,            \* "live" | "destroyed" | "panicked": whether the Pylon value still exists
    handshake,         \* Pylon.handshake: Option<Box<Handshake>>
    wormhole,          \* Pylon.wormhole: Option<Wormhole>
    transfer_request,  \* Pylon.transfer_request: Option<ReceiveRequest>
    relay_url,         \* Pylon.relay_url: String
    config,            \* Pylon.config: AppConfig<AppVersion>
    peer,              \* what the stored handshake future would yield if it were awaited
    connects,          \* calls of Wormhole::connect_without_code so far
    transfers,         \* calls of transfer::send_file / transfer::request_file so far
    codes,             \* wormhole codes gen_code has returned so far
    ncalls,            \* method calls made on the Pylon so far
    last,              \* the last method call: its name, arguments and result
    pre                \* the fields and counters as they were when the last call began

vars == << status, handshake, wormhole, transfer_request, relay_url, config,
           peer, connects, transfers, codes, ncalls, last, pre >>

----------------------------------------------------------------------------
(* Bounds of the model.                                                     *)

\* The number of method calls made on one Pylon.
MaxCalls == 4

----------------------------------------------------------------------------
(* Values.                                                                  *)

None == << >>
Some(x) == << x >>

\* The relay URLs a PylonConfig may carry.  The first is the library's default
\* relay; the second is the empty string; the third is a URL of a scheme that
\* is no relay transport.
DEFAULT_RELAY_SERVER == "tcp://transit.magic-wormhole.io:4001"
RelayUrls == { DEFAULT_RELAY_SERVER, "", "http://relay.example.org:4000" }

DEFAULT_RENDEZVOUS_SERVER == "ws://relay.magic-wormhole.io:4000/v1"
RendezvousUrls == { DEFAULT_RENDEZVOUS_SERVER, "ws://rendezvous.example.org/v1" }

APP_ID == "pylon"

\* PylonConfig { id, rendezvous_url, relay_url }
PylonConfigs ==
    [ id : { APP_ID }, rendezvous_url : RendezvousUrls, relay_url : RelayUrls ]

\* impl Default for PylonConfig
DefaultConfig ==
    [ id |-> APP_ID,
      rendezvous_url |-> DEFAULT_RENDEZVOUS_SERVER,
      relay_url |-> DEFAULT_RELAY_SERVER ]

\* The code lengths a caller asks for (code_length: usize).
CodeLengths == { 2, 4 }

\* The offers a peer may make (ReceiveRequest: file name and size).
Offers == { [ name |-> "test.bin", size |-> 1024 ],
            [ name |-> "empty.bin", size |-> 0 ] }

\* The files a caller sends (file_name, file_size).
Files == { [ name |-> "test.bin", size |-> 1024 ] }

\* What the handshake future stands for: nothing stored, the peer not there
\* yet, Ok(Wormhole) or Err(WormholeError).
PeerStates == { "none", "waiting", "ready", "failed" }

\* The variants of PylonError, "Ok", and "Panic" for a call that unwinds.
Results == { "Ok", "CodegenError", "RelayHintParseError", "TransferError",
             "InternalError", "Error", "Panic" }

----------------------------------------------------------------------------
(* Relay hint resolution: self.relay_url.parse().unwrap() and then           *)
(* RelayHint::from_urls(None, [url])?                                        *)

\* str::parse::<Url>: the empty string is no URL (the parser has no base to
\* resolve it against); the other two are absolute URLs.
UrlParses(u) == u # ""

\* RelayHint::from_urls: a relay is reached over tcp (or a websocket); a URL
\* of another scheme is a RelayHintParseError.
RelayHintOk(u) == u = DEFAULT_RELAY_SERVER

\* The outcome of the first statement of send_file/request_file that can
\* fail: "Panic" (unwrap of the parse error), "RelayHintParseError" (the ?
\* on from_urls) or "Ok" (relay_hints is built).
RelayHints(u) ==
    IF ~UrlParses(u) THEN "Panic"
    ELSE IF ~RelayHintOk(u) THEN "RelayHintParseError"
    ELSE "Ok"

----------------------------------------------------------------------------
(* The session.                                                             *)

\* The fields of struct Pylon, and the counters of the environment, in the
\* current state.
Fields ==
    [ handshake |-> handshake, wormhole |-> wormhole,
      transfer_request |-> transfer_request,
      relay_url |-> relay_url, config |-> config ]

Snapshot ==
    [ fields |-> Fields, peer |-> peer, connects |-> connects,
      transfers |-> transfers ]

\* Pylon::new
New(cfg) ==
    [ handshake |-> None,
      wormhole |-> None,
      transfer_request |-> None,
      relay_url |-> cfg.relay_url,
      config |-> [ id |-> cfg.id, rendezvous_url |-> cfg.rendezvous_url ] ]

\* The call record of a state that no method call has produced yet.
NoCall == [ op |-> "new", arg |-> None, res |-> "Ok", ret |-> None,
            cancelled |-> FALSE, outcome |-> None ]

TypeOK ==
    /\ status \in { "live", "destroyed", "panicked" }
    /\ handshake \in { None } \cup { Some(n) : n \in 0..MaxCalls }
    /\ wormhole \in { None } \cup { Some(n) : n \in 0..MaxCalls }
    /\ transfer_request \in { None } \cup { Some(o) : o \in Offers }
    /\ relay_url \in RelayUrls
    /\ config \in [ id : { APP_ID }, rendezvous_url : RendezvousUrls ]
    /\ peer \in PeerStates
    /\ connects \in 0..MaxCalls
    /\ transfers \in 0..MaxCalls
    /\ codes \in 0..MaxCalls
    /\ ncalls \in 0..MaxCalls
    /\ last.op \in { "new", "gen_code", "send_file", "request_file", "destroy" }
    /\ last.res \in Results

\* The state after Pylon::new(cfg), for every cfg.
Init ==
    \E cfg \in PylonConfigs :
        /\ status = "live"
        /\ handshake = New(cfg).handshake
        /\ wormhole = New(cfg).wormhole
        /\ transfer_request = New(cfg).transfer_request
        /\ relay_url = New(cfg).relay_url
        /\ config = New(cfg).config
        /\ peer = "none"
        /\ connects = 0
        /\ transfers = 0
        /\ codes = 0
        /\ ncalls = 0
        /\ last = NoCall
        /\ pre = [ fields |-> New(cfg), peer |-> "none", connects |-> 0,
                   transfers |-> 0 ]

\* destroy(&mut self) in place of destroy(self): the value is not moved, and
\* methods can still be called on it.
Callable_NotMoved == status # "panicked" /\ ncalls < MaxCalls

\* A method can be called on a Pylon that still exists.
Callable == status = "live" /\ ncalls < MaxCalls

----------------------------------------------------------------------------
(* gen_code                                                                 *)

\* gen_code without its first guard: a pending handshake is not looked at.
GenCodeRejected_OnlyWormhole(hs, wh) == wh # None

\* The two guards of gen_code: a pending handshake, then an initialized
\* wormhole, each a CodegenError.
GenCodeRejected(hs, wh) == hs # None \/ wh # None

\* The code of the n-th rendezvous connection: welcome.code.0.
Code(n, code_length) == [ nameplate |-> n, words |-> code_length ]

\* gen_code that drops the handshake future instead of storing it.
AfterConnect_NotStored(wh, n) == [ handshake |-> None, wormhole |-> wh ]

\* gen_code that fills the wormhole slot as well as the handshake slot.
AfterConnect_Both(wh, n) == [ handshake |-> Some(n), wormhole |-> Some(n) ]

\* What lines 132-134 leave in the two slots once the n-th rendezvous
\* connection is made: the handshake future is stored, the wormhole slot is
\* not written.
AfterConnect(wh, n) == [ handshake |-> Some(n), wormhole |-> wh ]

\* gen_code that fills the handshake slot before it knows whether the
\* rendezvous connection was made, and leaves it full when it was not.
GenCode_StoresOnFailure(code_length, connected) ==
    /\ Callable
    /\ ncalls' = ncalls + 1
    /\ pre' = Snapshot
    /\ IF GenCodeRejected(handshake, wormhole)
       THEN /\ last' = [ op |-> "gen_code", arg |-> Some(code_length),
                         res |-> "CodegenError", ret |-> None,
                         cancelled |-> FALSE, outcome |-> None ]
            /\ UNCHANGED << handshake, wormhole, peer, connects, codes >>
       ELSE /\ connects' = connects + 1
            /\ handshake' = Some(connects + 1)
            /\ UNCHANGED wormhole
            /\ IF connected
               THEN /\ peer' = "waiting"
                    /\ codes' = codes + 1
                    /\ last' = [ op |-> "gen_code", arg |-> Some(code_length),
                                 res |-> "Ok",
                                 ret |-> Some(Code(connects + 1, code_length)),
                                 cancelled |-> FALSE, outcome |-> Some("Ok") ]
               ELSE /\ peer' = "failed"
                    /\ last' = [ op |-> "gen_code", arg |-> Some(code_length),
                                 res |-> "InternalError", ret |-> None,
                                 cancelled |-> FALSE,
                                 outcome |-> Some("WormholeError") ]
                    /\ UNCHANGED codes
    /\ UNCHANGED << status, transfer_request, relay_url, config, transfers >>

\* gen_code(code_length), where connected says whether
\* Wormhole::connect_without_code returned Ok.
GenCode(code_length, connected) ==
    /\ Callable
    /\ ncalls' = ncalls + 1
    /\ pre' = Snapshot
    /\ IF GenCodeRejected(handshake, wormhole)
       THEN /\ last' = [ op |-> "gen_code", arg |-> Some(code_length),
                         res |-> "CodegenError", ret |-> None,
                         cancelled |-> FALSE, outcome |-> None ]
            /\ UNCHANGED << handshake, wormhole, peer, connects, codes >>
       ELSE /\ connects' = connects + 1
            /\ IF connected
               THEN /\ handshake' = AfterConnect(wormhole, connects + 1).handshake
                    /\ wormhole' = AfterConnect(wormhole, connects + 1).wormhole
                    /\ peer' = "waiting"
                    /\ codes' = codes + 1
                    /\ last' = [ op |-> "gen_code", arg |-> Some(code_length),
                                 res |-> "Ok",
                                 ret |-> Some(Code(connects + 1, code_length)),
                                 cancelled |-> FALSE, outcome |-> Some("Ok") ]
               ELSE /\ last' = [ op |-> "gen_code", arg |-> Some(code_length),
                                 res |-> "InternalError", ret |-> None,
                                 cancelled |-> FALSE,
                                 outcome |-> Some("WormholeError") ]
                    /\ UNCHANGED << handshake, wormhole, peer, codes >>
    /\ UNCHANGED << status, transfer_request, relay_url, config, transfers >>

----------------------------------------------------------------------------
(* send_file and request_file                                               *)

\* A slot that is read (as_ref) where the code takes it.
Take_Peek(slot) == slot

\* Option::take: what is left in the slot.
Take(slot) == None

\* The match on the wormhole slot without its None arm: the transfer is
\* awaited whether or not there is a wormhole.
TransferResult_Unchecked(hints, wh, outcome) ==
    IF hints # "Ok" THEN hints ELSE outcome

\* The None arm returning the library's error kind instead of
\* PylonError::Error.
TransferResult_WrongKind(hints, wh, outcome) ==
    IF hints # "Ok" THEN hints
    ELSE IF wh = None THEN "InternalError"
    ELSE outcome

\* The awaited transfer without its ?: a TransferError is dropped and the
\* call returns Ok.
TransferResult_Swallowed(hints, wh, outcome) ==
    IF hints # "Ok" THEN hints
    ELSE IF wh = None THEN "Error"
    ELSE "Ok"

\* The result of send_file/request_file: the relay hints are resolved first,
\* then the wormhole slot is matched, then the transfer is awaited.
TransferResult(hints, wh, outcome) ==
    IF hints # "Ok" THEN hints
    ELSE IF wh = None THEN "Error"
    ELSE outcome

\* What transfer::send_file may yield once awaited.
SendOutcomes == { "Ok", "TransferError" }

\* send_file that resets the transfer_request slot when it takes the
\* wormhole.
SendFile_ClearsOffer(file, cancelled, outcome) ==
    /\ Callable
    /\ ncalls' = ncalls + 1
    /\ pre' = Snapshot
    /\ LET hints == RelayHints(relay_url)
           res == TransferResult(hints, wormhole, outcome)
       IN  /\ last' = [ op |-> "send_file", arg |-> Some(file), res |-> res,
                        ret |-> None,
                        cancelled |-> cancelled, outcome |-> Some(outcome) ]
           /\ status' = IF res = "Panic" THEN "panicked" ELSE status
           /\ wormhole' = IF hints = "Ok" THEN Take(wormhole) ELSE wormhole
           /\ transfer_request' = IF hints = "Ok" /\ wormhole # None
                                  THEN None ELSE transfer_request
           /\ transfers' = IF hints = "Ok" /\ wormhole # None
                           THEN transfers + 1 ELSE transfers
    /\ UNCHANGED << handshake, relay_url, config, peer, connects, codes >>

\* send_file(file, file_name, file_size, progress_handler, cancel_handler):
\* cancelled says whether cancel_handler resolved during the transfer,
\* outcome is what the awaited sender yields.
SendFile(file, cancelled, outcome) ==
    /\ Callable
    /\ ncalls' = ncalls + 1
    /\ pre' = Snapshot
    /\ LET hints == RelayHints(relay_url)
           res == TransferResult(hints, wormhole, outcome)
       IN  /\ last' = [ op |-> "send_file", arg |-> Some(file), res |-> res,
                        ret |-> None,
                        cancelled |-> cancelled, outcome |-> Some(outcome) ]
           /\ status' = IF res = "Panic" THEN "panicked" ELSE status
           /\ wormhole' = IF hints = "Ok" THEN Take(wormhole) ELSE wormhole
           /\ transfers' = IF hints = "Ok" /\ wormhole # None
                           THEN transfers + 1 ELSE transfers
    /\ UNCHANGED << handshake, transfer_request, relay_url, config, peer,
                    connects, codes >>

\* What transfer::request_file may yield once awaited:
\* Result<Option<ReceiveRequest>, TransferError>.
RequestOutcomes ==
    { [ res |-> "Ok", request |-> None ] }
    \cup { [ res |-> "Ok", request |-> Some(o) ] : o \in Offers }
    \cup { [ res |-> "TransferError", request |-> None ] }

\* A store that skips an empty request: if let Some(r) = request { .. }.
StoreRequest_KeepOld(old, outcome) ==
    IF outcome.res = "Ok" /\ outcome.request # None THEN outcome.request ELSE old

\* A store made before the ? on the exchange: a failed exchange empties the
\* slot.
StoreRequest_BeforeCheck(old, outcome) == outcome.request

\* self.transfer_request = request, reached only when the exchange is Ok.
StoreRequest(old, outcome) ==
    IF outcome.res = "Ok" THEN outcome.request ELSE old

\* request_file(cancel_handler): cancelled says whether cancel_handler
\* resolved before an offer arrived, outcome is what the awaited request
\* yields (no offer when it was cancelled).
RequestFile(cancelled, outcome) ==
    /\ Callable
    /\ cancelled => outcome.request = None
    /\ ncalls' = ncalls + 1
    /\ pre' = Snapshot
    /\ LET hints == RelayHints(relay_url)
           res == TransferResult(hints, wormhole, outcome.res)
       IN  /\ last' = [ op |-> "request_file", arg |-> None, res |-> res,
                        ret |-> None,
                        cancelled |-> cancelled, outcome |-> Some(outcome) ]
           /\ status' = IF res = "Panic" THEN "panicked" ELSE status
           /\ wormhole' = IF hints = "Ok" THEN Take(wormhole) ELSE wormhole
           /\ transfers' = IF hints = "Ok" /\ wormhole # None
                           THEN transfers + 1 ELSE transfers
           /\ transfer_request' =
                 IF hints = "Ok" /\ wormhole # None
                 THEN StoreRequest(transfer_request, outcome)
                 ELSE transfer_request
    /\ UNCHANGED << handshake, relay_url, config, peer, connects, codes >>

----------------------------------------------------------------------------
(* destroy, and the peer                                                    *)

\* destroy(self): drop(self) drops every field; the value is gone.
Destroy ==
    /\ Callable
    /\ ncalls' = ncalls + 1
    /\ pre' = Snapshot
    /\ status' = "destroyed"
    /\ handshake' = None
    /\ wormhole' = None
    /\ transfer_request' = None
    /\ peer' = "none"
    /\ last' = [ op |-> "destroy", arg |-> None, res |-> "Ok", ret |-> None,
                 cancelled |-> FALSE, outcome |-> None ]
    /\ UNCHANGED << relay_url, config, connects, transfers, codes >>

\* The peer enters the code: from now on the stored handshake future would
\* yield Ok(Wormhole) if something awaited it.  Nothing in the Pylon does:
\* the future stays in self.handshake.
PeerCompletesHandshake ==
    /\ status = "live"
    /\ handshake # None
    /\ peer = "waiting"
    /\ peer' = "ready"
    /\ UNCHANGED << status, handshake, wormhole, transfer_request, relay_url,
                    config, connects, transfers, codes, ncalls, last, pre >>

\* The handshake fails (a wrong code, the rendezvous server lost): the stored
\* future would yield Err(WormholeError) if something awaited it.
HandshakeFails ==
    /\ status = "live"
    /\ handshake # None
    /\ peer = "waiting"
    /\ peer' = "failed"
    /\ UNCHANGED << status, handshake, wormhole, transfer_request, relay_url,
                    config, connects, transfers, codes, ncalls, last, pre >>

----------------------------------------------------------------------------
(* The specifications.                                                      *)

Next ==
    \/ \E n \in CodeLengths, connected \in BOOLEAN : GenCode(n, connected)
    \/ \E f \in Files, c \in BOOLEAN, o \in SendOutcomes : SendFile(f, c, o)
    \/ \E c \in BOOLEAN, o \in RequestOutcomes : RequestFile(c, o)
    \/ Destroy
    \/ PeerCompletesHandshake
    \/ HandshakeFails

\* The program: a Pylon made by Pylon::new and driven through its methods.
Spec == Init /\ [][Next]_vars

\* Every value of struct Pylon: each optional slot empty or full,
\* independently of the others.  No sequence of calls on a Pylon made by
\* Pylon::new fills the wormhole slot, so what a method does with a full slot
\* is checked from here: the method's contract over every value of its
\* receiver.  Every behaviour of Spec is a behaviour of ContractSpec.
ContractInit ==
    \E cfg \in PylonConfigs :
        /\ status = "live"
        /\ handshake \in { None, Some(0) }
        /\ wormhole \in { None, Some(0) }
        /\ transfer_request \in { None } \cup { Some(o) : o \in Offers }
        /\ relay_url = New(cfg).relay_url
        /\ config = New(cfg).config
        /\ peer \in IF handshake = None THEN { "none" }
                    ELSE { "waiting", "ready", "failed" }
        /\ connects = 0
        /\ transfers = 0
        /\ codes = 0
        /\ ncalls = 0
        /\ last = NoCall
        /\ pre = Snapshot

ContractSpec == ContractInit /\ [][Next]_vars

----------------------------------------------------------------------------
(* The claims.  last and pre describe the call that produced the state:     *)
(* a formula of the form (last.op = ...) => ... speaks of the state right    *)
(* after that call, pre of the state right before it.                        *)

GenCodeCall == last.op = "gen_code"
TransferCall == last.op \in { "send_file", "request_file" }
WasIdle == pre.fields.handshake = None /\ pre.fields.wormhole = None

\* C1 (as claimed): once gen_code has succeeded and the peer has completed
\* the handshake, the wormhole slot is full and the handshake slot is empty,
\* and a send_file that follows (relay_url resolving, the transfer itself
\* going through) returns Ok.
C1_HandshakeCompletionConnects ==
    /\ (status = "live" /\ peer = "ready")
          => (wormhole # None /\ handshake = None)
    /\ ( /\ last.op = "send_file"
         /\ pre.peer = "ready"
         /\ pre.transfers = 0
         /\ RelayHints(relay_url) = "Ok"
         /\ last.outcome = Some("Ok") )
          => last.res = "Ok"

\* C2 (as claimed): gen_code called on an idle Pylon succeeds, returns the
\* code and leaves the handshake slot full and the wormhole slot empty.
C2_GenCodeFromIdleAlwaysSucceeds ==
    (GenCodeCall /\ WasIdle)
       => /\ last.res = "Ok"
          /\ last.ret # None
          /\ handshake # None
          /\ wormhole = None

\* C2 (amended): gen_code called on an idle Pylon makes one rendezvous
\* connection; when the connection is made it returns Ok with the code of
\* that connection and of the requested length, and leaves the handshake slot
\* full and the wormhole slot empty; when the connection fails it returns
\* InternalError and leaves every field as it was.
C2_GenCodeFromIdle ==
    (GenCodeCall /\ WasIdle)
       => /\ connects = pre.connects + 1
          /\ last.outcome # None
          /\ last.outcome = Some("Ok")
                => /\ last.res = "Ok"
                   /\ \E n \in CodeLengths :
                         /\ last.arg = Some(n)
                         /\ last.ret = Some(Code(connects, n))
                   /\ handshake # None
                   /\ wormhole = None
                   /\ Fields = [ pre.fields EXCEPT !.handshake = handshake ]
          /\ last.outcome = Some("WormholeError")
                => /\ last.res = "InternalError"
                   /\ Fields = pre.fields

\* C2 witness: a gen_code on an idle Pylon has returned a code.
C2_Witness ==
    /\ GenCodeCall /\ WasIdle
    /\ last.res = "Ok"
    /\ handshake # None

\* C3: gen_code called while the handshake slot or the wormhole slot is full
\* returns CodegenError, makes no rendezvous connection and leaves every
\* field (handshake, wormhole, transfer_request, relay_url, config) as it was.
C3_GenCodeRejectedWithoutEffect ==
    (GenCodeCall /\ ~WasIdle)
       => /\ last.res = "CodegenError"
          /\ connects = pre.connects
          /\ Fields = pre.fields

\* C3 witness: a gen_code was rejected because the wormhole slot was full
\* (the handshake slot being empty).
C3_Witness ==
    /\ GenCodeCall
    /\ pre.fields.handshake = None
    /\ pre.fields.wormhole # None
    /\ last.res = "CodegenError"

\* C4 (as claimed): with the wormhole slot empty, send_file and request_file
\* return Error and leave every field as it was, whatever the relay_url.
\* Stated for the relay URLs that parse as URLs, so that a violation does not
\* rest on the unwrap of C5.
C4_NoChannelIsAlwaysGenericError ==
    (TransferCall /\ pre.fields.wormhole = None /\ UrlParses(relay_url))
       => /\ last.res = "Error"
          /\ Fields = pre.fields

\* C4 (amended): with the wormhole slot empty and a relay_url that resolves
\* to a relay hint, send_file and request_file return Error, start no
\* transfer and leave every field as it was; with a relay_url that is a URL
\* but no relay hint they return RelayHintParseError instead, equally without
\* a transfer or a change of any field.
C4_NoChannelWithRelayIsGenericError ==
    (TransferCall /\ pre.fields.wormhole = None)
       => /\ RelayHints(relay_url) = "Ok"
                => /\ last.res = "Error"
                   /\ Fields = pre.fields
                   /\ transfers = pre.transfers
          /\ RelayHints(relay_url) = "RelayHintParseError"
                => /\ last.res = "RelayHintParseError"
                   /\ Fields = pre.fields
                   /\ transfers = pre.transfers

\* C4 witness: a send_file or request_file on a Pylon with a pending
\* handshake and no wormhole has returned Error.
C4_Witness ==
    /\ TransferCall
    /\ pre.fields.wormhole = None
    /\ pre.fields.handshake # None
    /\ last.res = "Error"

\* C5 (as claimed): with a relay_url that does not resolve to a relay hint,
\* send_file and request_file return RelayHintParseError (the Pylon lives
\* on), start no transfer and leave the wormhole slot as it was.
C5_MalformedRelayIsAnErrorValue ==
    (TransferCall /\ RelayHints(relay_url) # "Ok")
       => /\ last.res = "RelayHintParseError"
          /\ status = "live"
          /\ transfers = pre.transfers
          /\ wormhole = pre.fields.wormhole

\* C6: a send_file or request_file that finds a wormhole (the relay_url
\* resolving) leaves the wormhole slot empty whatever the transfer yields and
\* whether or not it was cancelled; once a transfer has been started the slot
\* stays empty, and every later send_file or request_file returns Error
\* without starting another.
C6_ChannelSingleUse ==
    /\ (TransferCall /\ pre.fields.wormhole # None /\ RelayHints(relay_url) = "Ok")
          => /\ wormhole = None
             /\ transfers = pre.transfers + 1
             /\ last.res \in { "Ok", "TransferError" }
    /\ transfers > 0 => wormhole = None
    /\ (TransferCall /\ pre.transfers > 0)
          => /\ last.res = "Error"
             /\ transfers = pre.transfers

\* C6 witness: after a call that took the wormhole, a second send_file or
\* request_file has returned Error.
C6_Witness ==
    /\ TransferCall
    /\ pre.transfers > 0
    /\ last.res = "Error"
    /\ wormhole = None

\* C7: at most one of the handshake slot and the wormhole slot is full.
C7_AtMostOneSlot == ~(handshake # None /\ wormhole # None)

\* C7 witness: the handshake slot is full (and the wormhole slot empty).
C7_Witness == handshake # None /\ wormhole = None /\ status = "live"

\* C8 (as claimed): a wormhole is there only after a gen_code that returned a
\* code, a transfer is started only on a wormhole that was there, and a
\* send_file or request_file called before gen_code or while the handshake is
\* pending returns the precondition error at once, starting no transfer.
\* Stated for the relay URLs that parse as URLs, so that a violation does not
\* rest on the unwrap of C5.
C8_OutOfOrderIsAlwaysPreconditionError ==
    /\ wormhole # None => codes > 0
    /\ (TransferCall /\ transfers > pre.transfers) => pre.fields.wormhole # None
    /\ (TransferCall /\ pre.fields.wormhole = None /\ UrlParses(relay_url))
          => /\ last.res = "Error"
             /\ transfers = pre.transfers

\* C8 (amended): as claimed, for a Pylon whose relay_url resolves to a relay
\* hint: the relay hint is resolved before the wormhole slot is looked at, so
\* with any other relay_url the call made out of order ends in the relay hint
\* resolution, and never returns Error.  In no case is a transfer started.
C8_OrderingAndFailFast ==
    /\ wormhole # None => codes > 0
    /\ (TransferCall /\ transfers > pre.transfers) => pre.fields.wormhole # None
    /\ (TransferCall /\ pre.fields.wormhole = None)
          => /\ transfers = pre.transfers
             /\ last.res = "Error" <=> RelayHints(relay_url) = "Ok"

\* C8 witness: a request_file called while the handshake was still pending
\* (the peer not there yet) has returned Error.
C8_Witness ==
    /\ last.op = "request_file"
    /\ pre.fields.handshake # None
    /\ pre.peer = "waiting"
    /\ last.res = "Error"
    /\ transfers = 0

\* C9 (as claimed): when the handshake has failed before the first send_file
\* or request_file, that call returns InternalError (the relay_url
\* resolving).  With ncalls = 2 the call is the first after the gen_code that
\* stored the handshake.
C9_FailedHandshakeSurfacesAtFirstUse ==
    ( /\ TransferCall
      /\ ncalls = 2
      /\ pre.peer = "failed"
      /\ RelayHints(relay_url) = "Ok" )
       => last.res = "InternalError"

\* C10: request_file on a Pylon with a wormhole and a relay_url that
\* resolves: when the exchange yields an offer the call returns Ok and the
\* transfer_request slot holds that offer; when it yields no offer the call
\* returns Ok and the transfer_request slot is empty.
C10_RequestStoresOffer ==
    ( /\ last.op = "request_file"
      /\ pre.fields.wormhole # None
      /\ RelayHints(relay_url) = "Ok" )
       => \E o \in RequestOutcomes :
             /\ last.outcome = Some(o)
             /\ o.res = "Ok"
                   => /\ last.res = "Ok"
                      /\ transfer_request = o.request

\* C10 witness: a request_file on a Pylon that held an earlier offer has
\* returned Ok with no offer, and the slot is empty.
C10_Witness ==
    /\ last.op = "request_file"
    /\ pre.fields.wormhole # None
    /\ pre.fields.transfer_request # None
    /\ last.res = "Ok"
    /\ last.outcome = Some([ res |-> "Ok", request |-> None ])
    /\ transfer_request = None

\* A send_file or request_file that found a wormhole and awaited the
\* transfer.
ConsumingCall == TransferCall /\ transfers = pre.transfers + 1

Rank ==
    IF status = "destroyed" THEN 4
    ELSE IF wormhole # None THEN 2
    ELSE IF handshake # None THEN 1
    ELSE IF transfers > 0 THEN 3
    ELSE 0

\* C12: no step, of a method or of the peer, lowers the rank of the session
\* state; gen_code returns a code at most once; and once a call has taken
\* the wormhole the wormhole slot is never full again.
C12_NoBackwardTransition ==
    /\ [][Rank' >= Rank]_vars
    /\ [](codes <= 1)
    /\ [][transfers > 0 => wormhole' = None]_vars

\* C12 witness: on a Pylon whose gen_code has returned a code, a second
\* gen_code has been rejected: the Pylon is still handshaking.
C12_Witness ==
    /\ GenCodeCall
    /\ pre.fields.handshake # None
    /\ last.res = "CodegenError"
    /\ codes = 1
    /\ Rank = 1

\* C13: the transfer_request slot changes only in a request_file (or in the
\* drop of destroy), never in a gen_code or a send_file; and it goes from
\* empty to full only in a request_file that takes the wormhole, which is the
\* first and only call to do so: at most once.
C13_OfferWrittenOnlyByRequestOnce ==
    /\ [][transfer_request' # transfer_request
             => last'.op \in { "request_file", "destroy" }]_vars
    /\ [][(transfer_request = None /\ transfer_request' # None)
             => /\ last'.op = "request_file"
                /\ wormhole # None
                /\ wormhole' = None
                /\ transfers = 0
                /\ transfers' = 1]_vars
    /\ [](transfers <= 1)

\* C13 witness: a request_file on a Pylon with a wormhole and no offer has
\* stored the offer of the peer.
C13_Witness ==
    /\ last.op = "request_file"
    /\ pre.fields.wormhole # None
    /\ pre.fields.transfer_request = None
    /\ transfer_request # None
    /\ last.res = "Ok"

\* C14: once destroy has been called the handshake, wormhole and
\* transfer_request slots hold nothing, destroy is the last call made on the
\* Pylon, and no call (gen_code, send_file, request_file, destroy) and no
\* step of the peer is possible any more.
C14_DestroyReleasesAndIsTerminal ==
    /\ last.op = "destroy" <=> status = "destroyed"
    /\ status = "destroyed"
          => /\ handshake = None
             /\ wormhole = None
             /\ transfer_request = None
             /\ ~ENABLED Next

\* C14 witness: a Pylon whose three slots were full has been destroyed.
C14_Witness ==
    /\ status = "destroyed"
    /\ pre.fields.handshake # None
    /\ pre.fields.wormhole # None
    /\ pre.fields.transfer_request # None

\* What the awaited transfer of the last send_file or request_file yielded.
TransferOutcome ==
    IF last.op = "send_file" THEN last.outcome[1] ELSE last.outcome[1].res

\* C15: a gen_code makes at most one rendezvous connection and no transfer,
\* and when that connection fails the same call returns InternalError; a
\* send_file or request_file makes at most one transfer and no rendezvous
\* connection, and when that transfer fails the same call returns
\* TransferError.
C15_NoInternalRetries ==
    /\ GenCodeCall
          => /\ connects \in { pre.connects, pre.connects + 1 }
             /\ transfers = pre.transfers
             /\ last.outcome = Some("WormholeError")
                   => /\ last.res = "InternalError"
                      /\ connects = pre.connects + 1
    /\ TransferCall
          => /\ transfers \in { pre.transfers, pre.transfers + 1 }
             /\ connects = pre.connects
             /\ (ConsumingCall /\ TransferOutcome = "TransferError")
                   => last.res = "TransferError"

\* C15 witness: a send_file or request_file whose one transfer failed has
\* returned TransferError.
C15_Witness ==
    /\ ConsumingCall
    /\ TransferOutcome = "TransferError"
    /\ last.res = "TransferError"
    /\ transfers = 1

\* C16: a gen_code on an idle Pylon whose rendezvous connection fails returns
\* InternalError and leaves the Pylon idle, every field as it was; no gen_code
\* is rejected with CodegenError before some gen_code has returned a code, so
\* the gen_code that follows a failed one is attempted again.
C16_FailedConnectLeavesIdle ==
    /\ (GenCodeCall /\ WasIdle /\ last.outcome = Some("WormholeError"))
          => /\ last.res = "InternalError"
             /\ handshake = None
             /\ wormhole = None
             /\ Fields = pre.fields
    /\ (GenCodeCall /\ codes = 0) => last.res = "InternalError"
    /\ (GenCodeCall /\ last.res = "CodegenError") => codes > 0

\* C16 witness: after a gen_code whose connection failed, a second gen_code
\* on the same Pylon has returned a code.
C16_Witness ==
    /\ GenCodeCall
    /\ pre.connects = 1
    /\ connects = 2
    /\ codes = 1
    /\ last.res = "Ok"
    /\ handshake # None

\* C17: after a request_file that took the wormhole and whose exchange failed
\* with TransferError, the transfer_request slot holds what it held before
\* the call and the wormhole slot is empty.
C17_FailedRequestKeepsOffer ==
    ( /\ last.op = "request_file"
      /\ pre.fields.wormhole # None
      /\ last.res = "TransferError" )
       => /\ transfer_request = pre.fields.transfer_request
          /\ wormhole = None
          /\ transfers = pre.transfers + 1

\* C17 witness: a request_file on a Pylon holding a wormhole and an offer has
\* returned TransferError, the offer still there.
C17_Witness ==
    /\ last.op = "request_file"
    /\ pre.fields.wormhole # None
    /\ pre.fields.transfer_request # None
    /\ last.res = "TransferError"
    /\ transfer_request = pre.fields.transfer_request
    /\ wormhole = None

\* C18: no step changes relay_url or config; a send_file changes no field
\* but the wormhole slot (the handshake and transfer_request slots are as
\* they were); a request_file leaves the handshake slot as it was.
C18_Frame ==
    /\ [][relay_url' = relay_url /\ config' = config]_vars
    /\ [](last.op = "send_file"
             => Fields = [ pre.fields EXCEPT !.wormhole = wormhole ])
    /\ [](last.op = "request_file" => handshake = pre.fields.handshake)

\* C18 witness: a send_file has taken the wormhole of a Pylon whose handshake
\* and transfer_request slots were full, and both are as they were.
C18_Witness ==
    /\ last.op = "send_file"
    /\ pre.fields.wormhole # None
    /\ wormhole = None
    /\ handshake # None
    /\ transfer_request # None
    /\ handshake = pre.fields.handshake
    /\ transfer_request = pre.fields.transfer_request

=============================================================================
